---- MODULE Spec2Model ----
(***************************************************************************)
(* Model of the device-fingerprinting analyzer's core:                     *)
(*   - the crossing graph builder, routes/api.py get_graph_data            *)
(*   - the risk scoring engine, src/risk_calculator.py RiskCalculator      *)
(*   - the fingerprint comparator, src/device_matcher.py DeviceMatcher     *)
(*   - the /calculate-risk handler of routes/api.py and fix_data.fix       *)
(*   - mask_pii_for_display of app/utils.py                                *)
(* Money-like quantities (risk scores, weights) are integers in hundredths *)
(* ("cents"); the engine's unrounded float score is kept in thirds of a    *)
(* hundredth ("ticks") so that the division by 3 of the multi-account rule *)
(* is exact.                                                               *)
(***************************************************************************)
EXTENDS Integers, Sequences, FiniteSets, TLC

VARIABLES
    \* ---- get_graph_data (routes/api.py) ----
    crossings,   \* the list returned by the crossing query, api.py:61-63
    idx,         \* position of the for loop, api.py:68 (1-based, next to process)
    nodes,       \* the dict `nodes`, in insertion order, api.py:65
    links,       \* the list `links`, api.py:66
    gpc,         \* "loop" while iterating, "done" after the return
    response,    \* the returned {nodes, links}, api.py:100-103
    lookupLog,   \* history: every db.session.get made by the build, in order
    linkLog,     \* history: index of the crossing that appended each link
    \* ---- RiskCalculator.calculate_device_risk (src/risk_calculator.py) ----
    device,      \* the device dict handed to the engine
    accounts,    \* the accounts list handed to the engine
    result,      \* outcome of the last call on (device, accounts)
    before,      \* outcome of the call on the list without its last account
    \* ---- a RiskCalculator instance and its callers ----
    arg_ip_data, \* the ip_data argument of the last call
    arg_matcher, \* the matcher argument of the last call
    self_weights,\* the instance attribute self.weights
    rules,       \* what the last get_rules call returned
    prev,        \* outcome of the call before the last one
    inv,         \* two concurrent calculate_device_risk frames on one instance
    \* ---- DeviceMatcher (src/device_matcher.py) ----
    device1,     \* first device dict
    device2,     \* second device dict
    sim,         \* outcome of calculate_similarity / are_related on (device1, device2)
    simRev,      \* outcome on (device2, device1)
    \* ---- /calculate-risk (routes/api.py) and the tables it uses ----
    db_devices,  \* table devices: device_id -> row
    db_accounts, \* table accounts: account_id -> row
    db_crossings,\* table device_account_crossings: set of (device_id, account_id)
    api_resp,    \* the last HTTP response of /calculate-risk
    \* ---- mask_pii_for_display (app/utils.py) ----
    pii_value,   \* the value argument, a string as a sequence of characters
    pii_visible, \* the visible_chars argument
    pii_masked   \* what the call returned

gvars == <<crossings, idx, nodes, links, gpc, response, lookupLog, linkLog>>
rvars == <<device, accounts, result, before>>
evars == <<arg_ip_data, arg_matcher, self_weights, rules, prev>>
cvars == <<inv>>
mvars == <<device1, device2, sim, simRev>>
avars == <<db_devices, db_accounts, db_crossings, api_resp>>
pvars == <<pii_value, pii_visible, pii_masked>>
xvars == <<evars, cvars, mvars, avars, pvars>>
vars == <<crossings, idx, nodes, links, gpc, response, lookupLog, linkLog,
          device, accounts, result, before,
          arg_ip_data, arg_matcher, self_weights, rules, prev, inv,
          device1, device2, sim, simRev,
          db_devices, db_accounts, db_crossings, api_resp,
          pii_value, pii_visible, pii_masked>>

\* The components a specification does not exercise stay as they are.
EngineIdle ==
    /\ arg_ip_data = "idle" /\ arg_matcher = "idle" /\ self_weights = "idle"
    /\ rules = <<>> /\ prev = "idle"

ConcurrentIdle == inv = <<>>

MatcherIdle == device1 = "idle" /\ device2 = "idle" /\ sim = "idle" /\ simRev = "idle"

ApiIdle ==
    /\ db_devices = <<>> /\ db_accounts = <<>> /\ db_crossings = {}
    /\ api_resp = "idle"

MaskIdle == pii_value = <<>> /\ pii_visible = 0 /\ pii_masked = "idle"

OthersIdle == EngineIdle /\ ConcurrentIdle /\ MatcherIdle /\ ApiIdle /\ MaskIdle

(***************************************************************************)
(* Bounds of the model.                                                    *)
(***************************************************************************)
MaxCrossings == 3
MaxAccounts == 6

RECURSIVE SeqsUpTo(_, _)
SeqsUpTo(S, n) ==
    IF n = 0 THEN {<<>>}
    ELSE LET shorter == SeqsUpTo(S, n - 1)
         IN  shorter \cup {Append(s, x) : s \in {t \in shorter : Len(t) = n - 1}, x \in S}

(***************************************************************************)
(* Crossing graph builder.                                                 *)
(***************************************************************************)
\* Primary keys are uuid4 strings of two different tables (models.py:18, 72):
\* device ids and account ids never coincide.
DeviceIds == {"d1", "d2"}
AccountIds == {"a1", "a2"}
RiskFlags == {"low", "high"}

\* db.session.get returns None for a missing row.
Absent == [found |-> FALSE, os |-> "", browser |-> "", kyc_level |-> "", risk_score |-> 0]

\* Rows db.session.get(Device, id) can return (the columns the builder reads).
DeviceRows ==
    { [found |-> TRUE, os |-> "Windows", browser |-> "Chrome", kyc_level |-> "", risk_score |-> 1250],
      [found |-> TRUE, os |-> "Linux", browser |-> "Firefox", kyc_level |-> "", risk_score |-> 7500] }

\* Rows db.session.get(Account, id) can return.
AccountRows ==
    { [found |-> TRUE, os |-> "", browser |-> "", kyc_level |-> "pending", risk_score |-> 8000] }

\* One DeviceAccountCrossing row, as far as the builder reads it.
Crossings == [device_id : DeviceIds, account_id : AccountIds, risk_flag : RiskFlags]

\* `key in nodes`
HasNode(ns, id) == \E i \in 1..Len(ns) : ns[i].id = id

\* `nodes[key] = value` on an insertion-ordered dict: a new key goes last,
\* an existing key keeps its position and takes the new value.
DictSet(ns, id, node) ==
    IF HasNode(ns, id)
    THEN [i \in 1..Len(ns) |-> IF ns[i].id = id THEN node ELSE ns[i]]
    ELSE Append(ns, node)

\* f"{device.os} - {device.browser}"
DeviceLabel(row) == row.os \o " - " \o row.browser

\* f"Account ({account.kyc_level})"
AccountLabel(row) == "Account (" \o row.kyc_level \o ")"

DeviceNode(id, row) ==
    [id |-> id, group |-> "device", risk_score |-> row.risk_score, label |-> DeviceLabel(row)]

AccountNode(id, row) ==
    [id |-> id, group |-> "account", risk_score |-> row.risk_score, label |-> AccountLabel(row)]

MakeLink(c) ==
    [source |-> c.device_id, target |-> c.account_id, value |-> 1, risk_flag |-> c.risk_flag]

\* `if c.device_id not in nodes:`
NeedsDeviceLookup_always(ns, id) == TRUE

NeedsDeviceLookup(ns, id) == ~HasNode(ns, id)

\* `if c.account_id not in nodes:`
NeedsAccountLookup_always(ns, id) == TRUE

NeedsAccountLookup(ns, id) == ~HasNode(ns, id)

\* `if device:` / `if account:`
Found_always(row) == TRUE

Found(row) == row.found

\* `if c.device_id in nodes and c.account_id in nodes:`
LinkAllowed_or(ns, c) == HasNode(ns, c.device_id) \/ HasNode(ns, c.account_id)

LinkAllowed(ns, c) == HasNode(ns, c.device_id) /\ HasNode(ns, c.account_id)

\* `device = db.session.get(...)`, `if device: nodes[c.device_id] = {...}`
InsertDevice(ns, c, row) ==
    IF Found(row) THEN DictSet(ns, c.device_id, DeviceNode(c.device_id, row)) ELSE ns

\* `account = db.session.get(...)`, `if account: nodes[c.account_id] = {...}`
InsertAccount(ns, c, row) ==
    IF Found(row) THEN DictSet(ns, c.account_id, AccountNode(c.account_id, row)) ELSE ns

\* The link block of one iteration.
AddLink_prepend(ls, ns, c) == IF LinkAllowed(ns, c) THEN <<MakeLink(c)>> \o ls ELSE ls

AddLink_dedupe(ls, ns, c) ==
    IF LinkAllowed(ns, c)
       /\ ~\E k \in 1..Len(ls) : ls[k].source = c.device_id /\ ls[k].target = c.account_id
    THEN Append(ls, MakeLink(c)) ELSE ls

AddLink(ls, ns, c) == IF LinkAllowed(ns, c) THEN Append(ls, MakeLink(c)) ELSE ls

LogEntry(i, kind, id, row) == [at |-> i, kind |-> kind, id |-> id, row |-> row]

GraphIdle ==
    /\ device = [is_vpn |-> "Missing", is_datacenter |-> "Missing"]
    /\ accounts = <<>>
    /\ result = [status |-> "idle"]
    /\ before = [status |-> "idle"]

GraphInit ==
    /\ crossings \in SeqsUpTo(Crossings, MaxCrossings)
    /\ idx = 1
    /\ nodes = <<>>
    /\ links = <<>>
    /\ gpc = "loop"
    /\ response = [nodes |-> <<>>, links |-> <<>>]
    /\ lookupLog = <<>>
    /\ linkLog = <<>>
    /\ GraphIdle
    /\ OthersIdle

\* One iteration of `for c in crossings:` (api.py:68-98). drow and arow are what
\* the two db.session.get calls return if they are made.
ProcessCrossing ==
    /\ gpc = "loop"
    /\ idx <= Len(crossings)
    /\ \E drow \in DeviceRows \cup {Absent}, arow \in AccountRows \cup {Absent} :
         LET c == crossings[idx]
             dLook == NeedsDeviceLookup(nodes, c.device_id)
             n1 == IF dLook THEN InsertDevice(nodes, c, drow) ELSE nodes
             aLook == NeedsAccountLookup(n1, c.account_id)
             n2 == IF aLook THEN InsertAccount(n1, c, arow) ELSE n1
             l2 == AddLink(links, n2, c)
             log1 == IF dLook THEN Append(lookupLog, LogEntry(idx, "device", c.device_id, drow))
                     ELSE lookupLog
             log2 == IF aLook THEN Append(log1, LogEntry(idx, "account", c.account_id, arow))
                     ELSE log1
         IN  /\ (~dLook => drow = Absent)
             /\ (~aLook => arow = Absent)
             /\ nodes' = n2
             /\ links' = l2
             /\ lookupLog' = log2
             /\ linkLog' = IF Len(l2) # Len(links) THEN Append(linkLog, idx) ELSE linkLog
    /\ idx' = idx + 1
    /\ UNCHANGED <<crossings, gpc, response, rvars, xvars>>

\* `return jsonify({'nodes': list(nodes.values()), 'links': links})`
ReturnGraph ==
    /\ gpc = "loop"
    /\ idx > Len(crossings)
    /\ gpc' = "done"
    /\ response' = [nodes |-> nodes, links |-> links]
    /\ UNCHANGED <<crossings, idx, nodes, links, lookupLog, linkLog, rvars, xvars>>

GraphNext == ProcessCrossing \/ ReturnGraph

GraphSpec == GraphInit /\ [][GraphNext]_vars

(***************************************************************************)
(* Properties of the graph builder.                                        *)
(***************************************************************************)
\* Lookups of one id, in the order they were made.
LookupsOf(id) == SelectSeq(lookupLog, LAMBDA e : e.id = id)

\* Lookups that returned a row, in the order they were made.
Successes == SelectSeq(lookupLog, LAMBDA e : e.row.found)

\* The transition is one loop iteration.
IsIteration == gpc = "loop" /\ idx' = idx + 1

\* The lookups the iteration made.
NewLookups == {lookupLog'[i] : i \in (Len(lookupLog) + 1)..Len(lookupLog')}

\* The iteration looked its device up and the lookup returned None.
DeviceAbsentInStep ==
    IsIteration /\ \E e \in NewLookups : e.kind = "device" /\ ~e.row.found

\* C1 as stated: a crossing whose device lookup returns absent contributes zero
\* nodes and zero edges, even when its account lookup succeeds.
C1_NoContribution ==
    [][DeviceAbsentInStep => (nodes' = nodes /\ links' = links)]_vars

\* C1 as amended: a crossing whose device lookup returns absent contributes zero
\* edges and no device node; it still inserts its account as a node exactly
\* when the account was looked up in that iteration and the lookup returned a row.
C1_AbsentDeviceStep ==
    [][DeviceAbsentInStep =>
         LET c == crossings[idx]
             found == {e \in NewLookups : e.kind = "account" /\ e.row.found}
         IN  /\ links' = links
             /\ ~\E i \in 1..Len(nodes') : nodes'[i].id = c.device_id
             /\ IF found = {} THEN nodes' = nodes
                ELSE \E e \in found :
                        nodes' = Append(nodes, [id |-> c.account_id, group |-> "account",
                                                risk_score |-> e.row.risk_score,
                                                label |-> "Account (" \o e.row.kyc_level \o ")"])]_vars

\* C1 witness: an iteration whose device lookup returned None and whose account
\* lookup returned a row has run.
C1_Witness ==
    \E i \in 1..Len(lookupLog), j \in 1..Len(lookupLog) :
        /\ lookupLog[i].at = lookupLog[j].at
        /\ lookupLog[i].kind = "device" /\ ~lookupLog[i].row.found
        /\ lookupLog[j].kind = "account" /\ lookupLog[j].row.found

\* C2: every link joins a device node and an account node that are in the node
\* map, both ids were resolved to a row by a lookup no later than the crossing
\* that added the link, and the link's crossing names exactly those two ids.
C2_NoDanglingEdge ==
    /\ Len(linkLog) = Len(links)
    /\ \A k \in 1..Len(links) :
         /\ \E i \in 1..Len(nodes) : nodes[i].id = links[k].source /\ nodes[i].group = "device"
         /\ \E i \in 1..Len(nodes) : nodes[i].id = links[k].target /\ nodes[i].group = "account"
         /\ crossings[linkLog[k]].device_id = links[k].source
         /\ crossings[linkLog[k]].account_id = links[k].target
         /\ \E e \in {lookupLog[i] : i \in 1..Len(lookupLog)} :
               e.id = links[k].source /\ e.row.found /\ e.at <= linkLog[k]
         /\ \E e \in {lookupLog[i] : i \in 1..Len(lookupLog)} :
               e.id = links[k].target /\ e.row.found /\ e.at <= linkLog[k]

\* C2 witness: a link whose device endpoint was inserted by an earlier crossing.
C2_Witness ==
    \E k \in 1..Len(links) :
        \E e \in {lookupLog[i] : i \in 1..Len(lookupLog)} :
            e.id = links[k].source /\ e.row.found /\ e.at < linkLog[k]

\* C3 as stated: each device id and each account id is looked up at most once
\* during a build, whether the lookup returned a row or None.
C3_AtMostOneLookup ==
    \A id \in DeviceIds \cup AccountIds : Len(LookupsOf(id)) <= 1

\* C3 as amended: an id is looked up at most once per crossing that references
\* it, and never again after a lookup of it returned a row (so at most one
\* lookup of an id succeeds, and it is the last one); an id whose lookups
\* return None is looked up again by each crossing that references it.
C3_NoLookupAfterSuccess ==
    \A id \in DeviceIds \cup AccountIds :
        LET ls == LookupsOf(id)
        IN  /\ \A i \in 1..Len(ls) : i < Len(ls) => ~ls[i].row.found
            /\ \A i, j \in 1..Len(ls) : i < j => ls[i].at < ls[j].at
            /\ \A i \in 1..Len(ls) :
                  /\ ls[i].at < idx
                  /\ id \in {crossings[ls[i].at].device_id, crossings[ls[i].at].account_id}
            /\ \A k \in 1..(idx - 1) :
                  (/\ id \in {crossings[k].device_id, crossings[k].account_id}
                   /\ ~\E i \in 1..Len(ls) : ls[i].at < k /\ ls[i].row.found)
                  => \E i \in 1..Len(ls) : ls[i].at = k

\* C3 witness: an id was referenced by a crossing after a lookup of it had
\* returned a row, and an id was looked up twice.
C3_Witness ==
    /\ \E id \in DeviceIds : Len(LookupsOf(id)) = 2
    /\ \E id \in DeviceIds, k \in 1..(idx - 1) :
          /\ crossings[k].device_id = id
          /\ \E i \in 1..Len(lookupLog) :
                lookupLog[i].id = id /\ lookupLog[i].row.found /\ lookupLog[i].at < k

\* The row of the first lookup of id that returned one.
FirstFound(id) ==
    LET ok == SelectSeq(LookupsOf(id), LAMBDA e : e.row.found) IN ok[1].row

\* C4: the graph holds at most one node per id, a node exists exactly for the
\* ids some lookup resolved, and its label and risk_score are those of the first
\* lookup of the id that returned a row, whatever later crossings and lookups do.
C4_NodeIdentity ==
    /\ \A i, j \in 1..Len(nodes) : nodes[i].id = nodes[j].id => i = j
    /\ \A id \in DeviceIds \cup AccountIds :
          (\E i \in 1..Len(nodes) : nodes[i].id = id)
          <=> (\E i \in 1..Len(lookupLog) : lookupLog[i].id = id /\ lookupLog[i].row.found)
    /\ \A i \in 1..Len(nodes) :
          LET row == FirstFound(nodes[i].id)
          IN  /\ nodes[i].risk_score = row.risk_score
              /\ nodes[i].id \in DeviceIds =>
                    nodes[i].group = "device" /\ nodes[i].label = row.os \o " - " \o row.browser
              /\ nodes[i].id \in AccountIds =>
                    nodes[i].group = "account"
                    /\ nodes[i].label = "Account (" \o row.kyc_level \o ")"

\* C4 witness: two crossings referenced the same device id after its node was
\* inserted, and the build is over.
C4_Witness ==
    /\ gpc = "done"
    /\ \E id \in DeviceIds :
          /\ \E i \in 1..Len(response.nodes) : response.nodes[i].id = id
          /\ Cardinality({k \in 1..Len(crossings) : crossings[k].device_id = id}) >= 2

\* C5: nodes are listed in first-seen order, i.e. in the order in which the
\* lookups that inserted them were made (crossing by crossing, the device
\* before the account within one crossing), and links are listed in the order
\* of the crossings that produced them; the response returns both unchanged.
C5_ResultOrdering ==
    /\ \A i, j \in 1..Len(lookupLog) :
          i < j => \/ lookupLog[i].at < lookupLog[j].at
                   \/ /\ lookupLog[i].at = lookupLog[j].at
                      /\ lookupLog[i].kind = "device"
                      /\ lookupLog[j].kind = "account"
    /\ Len(nodes) = Len(Successes)
    /\ \A i \in 1..Len(nodes) : nodes[i].id = Successes[i].id
    /\ Len(links) = Len(linkLog)
    /\ \A k, m \in 1..Len(linkLog) : k < m => linkLog[k] < linkLog[m]
    /\ \A k \in 1..Len(links) :
          /\ links[k].source = crossings[linkLog[k]].device_id
          /\ links[k].target = crossings[linkLog[k]].account_id
          /\ links[k].risk_flag = crossings[linkLog[k]].risk_flag
    /\ gpc = "done" => response.nodes = nodes /\ response.links = links

\* C5 witness: a finished build that returned at least three nodes and two
\* links with different flags.
C5_Witness ==
    /\ gpc = "done"
    /\ Len(response.nodes) >= 3
    /\ Len(response.links) >= 2
    /\ response.links[1].risk_flag # response.links[2].risk_flag

\* Every lookup of the build returned a row.
AllLookupsSucceeded == \A i \in 1..Len(lookupLog) : lookupLog[i].row.found

\* The crossing list of the end-to-end scenario.
Scenario ==
    << [device_id |-> "d1", account_id |-> "a1", risk_flag |-> "low"],
       [device_id |-> "d1", account_id |-> "a2", risk_flag |-> "high"],
       [device_id |-> "d2", account_id |-> "a1", risk_flag |-> "low"] >>

\* C6: when every lookup succeeds the returned graph has exactly one node per
\* distinct device id and per distinct account id among the crossings, and
\* exactly one edge per crossing, edge i having source = device id, target =
\* account id, value = 1 and the risk_flag of crossing i; the scenario list
\* gives 4 nodes and 3 edges, the second flagged high.
C6_AllLookupsSucceed ==
    (gpc = "done" /\ AllLookupsSucceeded) =>
        LET ids == {crossings[k].device_id : k \in 1..Len(crossings)}
                   \cup {crossings[k].account_id : k \in 1..Len(crossings)}
        IN  /\ {response.nodes[i].id : i \in 1..Len(response.nodes)} = ids
            /\ Len(response.nodes) = Cardinality(ids)
            /\ Len(response.links) = Len(crossings)
            /\ \A k \in 1..Len(crossings) :
                  response.links[k] = [source |-> crossings[k].device_id,
                                       target |-> crossings[k].account_id,
                                       value |-> 1,
                                       risk_flag |-> crossings[k].risk_flag]
            /\ crossings = Scenario =>
                  /\ Len(response.nodes) = 4
                  /\ Len(response.links) = 3
                  /\ response.links[2].risk_flag = "high"

\* C6 witness: the scenario was built with every lookup succeeding.
C6_Witness == gpc = "done" /\ AllLookupsSucceeded /\ crossings = Scenario

(***************************************************************************)
(* Risk scoring engine.                                                    *)
(***************************************************************************)
\* Ticks per hundredth: the engine divides by 3 (`account_count / 3`), so the
\* float score is an exact multiple of a third of a hundredth.
TicksPerCent == 3

\* self.weights, in hundredths.
weights ==
    [vpn |-> 2500, datacenter |-> 3000, multi_account |-> 2000,
     new_account |-> 1500, high_velocity |-> 1000, suspicious_os |-> 800]

\* Values of a boolean key of the device dict: a bool, None, or no such key.
FlagValues == {"True", "False", "None", "Missing"}

Devices == [is_vpn : FlagValues, is_datacenter : FlagValues]

\* An account dict as far as the engine reads it: its 'risk_score' is a number
\* (in hundredths), None, or the key is missing.
AccountValues ==
    { [kind |-> "num", risk_score |-> 6000],
      [kind |-> "num", risk_score |-> 6001],
      [kind |-> "missing", risk_score |-> 0],
      [kind |-> "none", risk_score |-> 0] }

\* What /calculate-risk passes for ip_data and matcher.
IpData == [country |-> "DE"]
Matcher == "DeviceMatcher"

NoResult ==
    [status |-> "none", risk_score |-> 0, risk_level |-> "",
     factors |-> [vpn |-> "", datacenter |-> "", account_count |-> 0, suspicious_accounts |-> 0]]

\* The call ended with TypeError ('>' between NoneType and int).
RaisedTypeError ==
    [status |-> "TypeError", risk_score |-> 0, risk_level |-> "",
     factors |-> [vpn |-> "", datacenter |-> "", account_count |-> 0, suspicious_accounts |-> 0]]

\* device.get(key): None when the key is missing.
DictGet(v) == IF v = "Missing" THEN "None" ELSE v

\* device.get(key, False)
DictGetOrFalse(v) == IF v = "Missing" THEN "False" ELSE v

\* Truth value of a flag in `if device.get(...)`.
Truthy(v) == v = "True"

\* acc.get('risk_score', 0)
AccountScore(acc) == IF acc.kind = "missing" THEN [kind |-> "num", risk_score |-> 0] ELSE acc

\* `acc.get('risk_score', 0) > 60` (60 is 6000 hundredths); the caller has
\* checked that the value is a number.
IsSuspicious(acc) == AccountScore(acc).risk_score > 6000

\* sum(1 for acc in accounts if acc.get('risk_score', 0) > 60)
SuspiciousCount(accs) == Cardinality({i \in 1..Len(accs) : IsSuspicious(accs[i])})

\* `if device.get('is_vpn'): score += self.weights['vpn']`
VpnTicks(dev) == IF Truthy(DictGet(dev.is_vpn)) THEN weights.vpn * TicksPerCent ELSE 0

\* `if device.get('is_datacenter'): score += self.weights['datacenter']`
DatacenterTicks_vpn(dev) ==
    IF Truthy(DictGet(dev.is_datacenter)) THEN weights.vpn * TicksPerCent ELSE 0

DatacenterTicks(dev) ==
    IF Truthy(DictGet(dev.is_datacenter)) THEN weights.datacenter * TicksPerCent ELSE 0

\* `if account_count > 3: score += self.weights['multi_account'] * (account_count / 3)`
MultiAccountTicks_floordiv(n) ==
    IF n > 3 THEN weights.multi_account * TicksPerCent * (n \div 3) ELSE 0

MultiAccountTicks(n) ==
    IF n > 3 THEN (weights.multi_account * TicksPerCent * n) \div 3 ELSE 0

\* `if suspicious_accounts > 0: score += 15.0`
SuspiciousTicks_perAccount(k) == 1500 * TicksPerCent * k

SuspiciousTicks(k) == IF k > 0 THEN 1500 * TicksPerCent ELSE 0

\* The unrounded `score` at line 44.
ScoreTicks(dev, accs) ==
    VpnTicks(dev) + DatacenterTicks(dev) + MultiAccountTicks(Len(accs))
    + SuspiciousTicks(SuspiciousCount(accs))

\* `if score >= 70: ... elif score >= 40: ... else: ...`
RiskLevel_strict(t) ==
    IF t > 7000 * TicksPerCent THEN "high"
    ELSE IF t > 4000 * TicksPerCent THEN "medium" ELSE "low"

RiskLevel(t) ==
    IF t >= 7000 * TicksPerCent THEN "high"
    ELSE IF t >= 4000 * TicksPerCent THEN "medium" ELSE "low"

\* round(score, 2): the nearest hundredth (a tick count is never half way).
Round2(t) == (2 * t + TicksPerCent) \div (2 * TicksPerCent)

\* RiskCalculator.calculate_device_risk
calculate_device_risk_usesMatcher(dev, accs, ip_data, matcher) ==
    IF matcher = "None" \/ \E i \in 1..Len(accs) : AccountScore(accs[i]).kind # "num"
    THEN RaisedTypeError
    ELSE [status |-> "returned",
          risk_score |-> Round2(ScoreTicks(dev, accs)),
          risk_level |-> RiskLevel(ScoreTicks(dev, accs)),
          factors |-> [vpn |-> DictGetOrFalse(dev.is_vpn),
                       datacenter |-> DictGetOrFalse(dev.is_datacenter),
                       account_count |-> Len(accs),
                       suspicious_accounts |-> SuspiciousCount(accs)]]

calculate_device_risk(dev, accs, ip_data, matcher) ==
    IF \E i \in 1..Len(accs) : AccountScore(accs[i]).kind # "num"
    THEN RaisedTypeError
    ELSE [status |-> "returned",
          risk_score |-> Round2(ScoreTicks(dev, accs)),
          risk_level |-> RiskLevel(ScoreTicks(dev, accs)),
          factors |-> [vpn |-> DictGetOrFalse(dev.is_vpn),
                       datacenter |-> DictGetOrFalse(dev.is_datacenter),
                       account_count |-> Len(accs),
                       suspicious_accounts |-> SuspiciousCount(accs)]]

RiskIdle ==
    /\ crossings = <<>>
    /\ idx = 1
    /\ nodes = <<>>
    /\ links = <<>>
    /\ gpc = "idle"
    /\ response = [nodes |-> <<>>, links |-> <<>>]
    /\ lookupLog = <<>>
    /\ linkLog = <<>>

RiskInit ==
    /\ device \in Devices
    /\ accounts = <<>>
    /\ result = NoResult
    /\ before = NoResult
    /\ RiskIdle
    /\ OthersIdle

\* calculator.calculate_device_risk(device, accounts, ip_data, matcher)
CalculateRisk ==
    /\ result.status = "none"
    /\ result' = calculate_device_risk(device, accounts, IpData, Matcher)
    /\ UNCHANGED <<device, accounts, before, gvars, xvars>>

\* The caller scores the same device with one more linked account.
AppendAccount ==
    /\ result.status # "none"
    /\ Len(accounts) < MaxAccounts
    /\ \E a \in AccountValues : accounts' = Append(accounts, a)
    /\ before' = result
    /\ result' = NoResult
    /\ UNCHANGED <<device, gvars, xvars>>

RiskNext == CalculateRisk \/ AppendAccount

RiskSpec == RiskInit /\ [][RiskNext]_vars

(***************************************************************************)
(* Properties of the risk scoring engine.                                  *)
(***************************************************************************)
\* The account's risk_score is a number above 60.
ScoresAbove60(acc) == acc.kind = "num" /\ acc.risk_score > 6000

\* Both calls returned and the account appended between them has risk_score > 60.
AddedSuspicious ==
    /\ Len(accounts) >= 1
    /\ before.status = "returned"
    /\ result.status = "returned"
    /\ ScoresAbove60(accounts[Len(accounts)])

\* The list before the append already held an account with risk_score > 60.
HadSuspicious == \E i \in 1..(Len(accounts) - 1) : ScoresAbove60(accounts[i])

\* round(20.0 * n / 3, 2) in hundredths for n > 3, else 0.
MultiCents(n) == IF n > 3 THEN (4000 * n + 3) \div 6 ELSE 0

\* C7 as stated: adding one account with risk_score > 60 changes the total
\* score by exactly +15.0 if the list held no such account, by +0.0 otherwise.
C7_FlatBonusOnly ==
    AddedSuspicious =>
        result.risk_score - before.risk_score = (IF HadSuspicious THEN 0 ELSE 1500)

\* C7 as amended: adding one account with risk_score > 60 to a list of n
\* accounts changes the total score by +15.0 if the list held no such account
\* and +0.0 otherwise, plus the change of the multi-account term, which is 0
\* when n + 1 <= 3 and round(20(n+1)/3, 2) - (round(20n/3, 2) if n > 3 else 0)
\* when n + 1 > 3.
C7_BonusPlusMultiAccount ==
    AddedSuspicious =>
        LET n == Len(accounts) - 1
        IN  /\ result.risk_score - before.risk_score
                  = (IF HadSuspicious THEN 0 ELSE 1500) + MultiCents(n + 1) - MultiCents(n)
            /\ n + 1 <= 3 =>
                  result.risk_score - before.risk_score = (IF HadSuspicious THEN 0 ELSE 1500)

\* C7 witness: a second suspicious account was added to a list that stays
\* within 3 accounts, and both lists were scored.
C7_Witness == AddedSuspicious /\ HadSuspicious /\ Len(accounts) = 3

\* C8: whenever the call returns, risk_score = round(25*[is_vpn] +
\* 30*[is_datacenter] + (20n/3 if n > 3 else 0) + (15 if some account has
\* risk_score > 60 else 0), 2); it returns for every input whose account
\* risk_scores are numbers or missing; it gives 0.0/low with no flag and no
\* account, and 55.0/medium with both flags and at most 3 unsuspicious accounts.
C8_ScoreFormula ==
    LET n == Len(accounts)
        anySuspicious == \E i \in 1..n : ScoresAbove60(accounts[i])
        vpn == IF device.is_vpn = "True" THEN 2500 ELSE 0
        dc == IF device.is_datacenter = "True" THEN 3000 ELSE 0
    IN  /\ (result.status # "none" /\ \A i \in 1..n : accounts[i].kind # "none")
              => result.status = "returned"
        /\ result.status = "returned" =>
              /\ result.risk_score
                    = vpn + dc + MultiCents(n) + (IF anySuspicious THEN 1500 ELSE 0)
              /\ (vpn = 0 /\ dc = 0 /\ n = 0) =>
                    result.risk_score = 0 /\ result.risk_level = "low"
              /\ (vpn > 0 /\ dc > 0 /\ n <= 3 /\ ~anySuspicious) =>
                    result.risk_score = 5500 /\ result.risk_level = "medium"

\* C8 witness: a call with all four contributions present has returned.
C8_Witness ==
    /\ result.status = "returned"
    /\ device.is_vpn = "True" /\ device.is_datacenter = "True"
    /\ Len(accounts) = 5
    /\ \E i \in 1..Len(accounts) : ScoresAbove60(accounts[i])

\* C9: the returned risk_level is the level the thresholds give for the
\* returned, rounded risk_score: high iff >= 70, medium iff in [40, 70), low
\* iff below 40.
C9_LevelMatchesScore ==
    result.status = "returned" =>
        /\ result.risk_level \in {"low", "medium", "high"}
        /\ result.risk_level = "high" <=> result.risk_score >= 7000
        /\ result.risk_level = "medium" <=>
              (4000 <= result.risk_score /\ result.risk_score < 7000)
        /\ result.risk_level = "low" <=> result.risk_score < 4000

\* C9 witness: a call returned the boundary score 70.0 (25 + 30 + 15).
C9_Witness == result.status = "returned" /\ result.risk_score = 7000

\* C10: with no VPN, datacenter or suspicious account the score is 0 for
\* n <= 3 accounts and round(20n/3, 2) for n > 3, strictly larger than for
\* n - 1 accounts; for n = 6 it is 40.0 and the level is medium.
C10_MultiAccountScaling ==
    (/\ result.status = "returned"
     /\ device.is_vpn # "True" /\ device.is_datacenter # "True"
     /\ \A i \in 1..Len(accounts) : ~ScoresAbove60(accounts[i])) =>
        LET n == Len(accounts)
        IN  /\ n <= 3 => result.risk_score = 0
            /\ n > 3 => /\ 3 * result.risk_score - 2000 * n \in {-1, 0, 1}
                        /\ before.status = "returned"
                        /\ result.risk_score > before.risk_score
            /\ n = 6 => result.risk_score = 4000 /\ result.risk_level = "medium"

\* C10 witness: six unsuspicious accounts on a plain device were scored.
C10_Witness ==
    /\ result.status = "returned"
    /\ Len(accounts) = 6
    /\ device.is_vpn = "False" /\ device.is_datacenter = "False"
    /\ \A i \in 1..Len(accounts) : ~ScoresAbove60(accounts[i])

\* C11: calculate_device_risk never raises: for every device and account list,
\* also when is_vpn, is_datacenter or an account's risk_score is missing or
\* null, the call returns a normal RiskResult.
C11_NeverRaises == result.status # "none" => result.status = "returned"

(***************************************************************************)
(* One RiskCalculator instance and its callers.                            *)
(***************************************************************************)
MaxEngineAccounts == 4

\* ip_data = None
NoIpData == [none |-> TRUE]

\* Values a caller can pass for ip_data and matcher.
IpDataValues == {IpData, NoIpData}
MatcherValues == {Matcher, "None"}

\* The frame of a call that has been entered and has not returned.
Running ==
    [status |-> "running", risk_score |-> 0, risk_level |-> "",
     factors |-> [vpn |-> "", datacenter |-> "", account_count |-> 0, suspicious_accounts |-> 0]]

\* What the device dict is after the call: device.get(...) only reads.
DeviceAfterCall_setdefault(dev) ==
    [is_vpn |-> DictGetOrFalse(dev.is_vpn), is_datacenter |-> DictGetOrFalse(dev.is_datacenter)]

DeviceAfterCall(dev) == dev

\* What the accounts list is after the call: len(), iteration and acc.get(...)
\* only read.
AccountsAfterCall(accs) == accs

\* What self.weights is after the call: self.weights[...] is only read.
WeightsAfterCall_bump(w) == [w EXCEPT !.vpn = @ + 500]

WeightsAfterCall(w) == w

\* RiskCalculator.get_rules
get_rules(w) ==
    << [rule |-> "VPN Detection", weight |-> w.vpn, category |-> "Network"],
       [rule |-> "Datacenter IP", weight |-> w.datacenter, category |-> "Network"],
       [rule |-> "Multi-account Device (>3)", weight |-> w.multi_account, category |-> "Behavior"],
       [rule |-> "New Account link", weight |-> w.new_account, category |-> "Identity"],
       [rule |-> "High velocity crossings", weight |-> w.high_velocity, category |-> "Behavior"],
       [rule |-> "Suspicious OS/UA", weight |-> w.suspicious_os, category |-> "Device"] >>

\* No call has been made yet.
NoCall == [out |-> NoResult, ip_data |-> IpData, matcher |-> Matcher]

\* RiskCalculator(): __init__ has set self.weights; no call has been made.
EngineInit ==
    /\ device \in Devices
    /\ accounts \in SeqsUpTo(AccountValues, MaxEngineAccounts)
    /\ result = NoResult
    /\ before = NoResult
    /\ arg_ip_data = IpData
    /\ arg_matcher = Matcher
    /\ self_weights = weights
    /\ rules = <<>>
    /\ prev = NoCall
    /\ RiskIdle
    /\ ConcurrentIdle /\ MatcherIdle /\ ApiIdle /\ MaskIdle

\* A caller enters calculate_device_risk(device, accounts, ip, m).
EnterCall ==
    /\ result.status # "running"
    /\ \E ip \in IpDataValues, m \in MatcherValues :
          /\ arg_ip_data' = ip
          /\ arg_matcher' = m
    /\ prev' = [out |-> result, ip_data |-> arg_ip_data, matcher |-> arg_matcher]
    /\ result' = Running
    /\ UNCHANGED <<device, accounts, before, self_weights, rules, gvars, pvars, cvars, mvars, avars>>

\* The call runs to its return (or raises).
ReturnCall ==
    /\ result.status = "running"
    /\ result' = calculate_device_risk(device, accounts, arg_ip_data, arg_matcher)
    /\ device' = DeviceAfterCall(device)
    /\ accounts' = AccountsAfterCall(accounts)
    /\ self_weights' = WeightsAfterCall(self_weights)
    /\ UNCHANGED <<before, arg_ip_data, arg_matcher, rules, prev, gvars, pvars, cvars, mvars, avars>>

\* A caller calls get_rules().
GetRules ==
    /\ result.status # "running"
    /\ rules' = get_rules(self_weights)
    /\ UNCHANGED <<rvars, arg_ip_data, arg_matcher, self_weights, prev, gvars, pvars, cvars, mvars, avars>>

EngineNext == EnterCall \/ ReturnCall \/ GetRules

EngineSpec == EngineInit /\ [][EngineNext]_vars

(***************************************************************************)
(* Properties of the RiskCalculator instance.                              *)
(***************************************************************************)
\* C12: for the same device and account list, calculate_device_risk gives the
\* same outcome (score, level, factors) whatever is passed for ip_data and
\* matcher, None included, and the arguments are accepted without error: it
\* returns whenever no account risk_score is None.
C12_ParametersIgnored ==
    /\ (result.status \notin {"none", "running"} /\ prev.out.status \notin {"none", "running"})
          => result = prev.out
    /\ (result.status \notin {"none", "running"}
        /\ \A i \in 1..Len(accounts) : accounts[i].kind # "none")
          => result.status = "returned"

\* C12 witness: two successive calls returned, the first with a dict and a
\* matcher, the second with ip_data = None and matcher = None.
C12_Witness ==
    /\ result.status = "returned"
    /\ prev.out.status = "returned"
    /\ prev.ip_data = IpData /\ prev.matcher = Matcher
    /\ arg_ip_data = NoIpData /\ arg_matcher = "None"
    /\ Len(accounts) = 4

\* C13: after any sequence of calculate_device_risk and get_rules calls,
\* get_rules returns exactly 6 entries, in the order VPN, Datacenter,
\* Multi-account, New-account-link, High-velocity-crossings, Suspicious-OS,
\* with weights 25.0, 30.0, 20.0, 15.0, 10.0, 8.0 and categories Network,
\* Network, Behavior, Identity, Behavior, Device.
C13_RulesTable ==
    rules # <<>> =>
        /\ Len(rules) = 6
        /\ [i \in 1..6 |-> rules[i].rule]
              = << "VPN Detection", "Datacenter IP", "Multi-account Device (>3)",
                   "New Account link", "High velocity crossings", "Suspicious OS/UA" >>
        /\ [i \in 1..6 |-> rules[i].weight] = <<2500, 3000, 2000, 1500, 1000, 800>>
        /\ [i \in 1..6 |-> rules[i].category]
              = <<"Network", "Network", "Behavior", "Identity", "Behavior", "Device">>

\* C13 witness: get_rules was called after two scoring calls had returned.
C13_Witness ==
    /\ rules # <<>>
    /\ result.status = "returned"
    /\ prev.out.status = "returned"

\* The transition is a calculate_device_risk call running to its end.
IsScoringCall == result.status = "running" /\ result'.status # "running"

\* C14: a call to calculate_device_risk leaves the device record, the accounts
\* list and every account record in it, ip_data, the matcher and the engine's
\* weight table unchanged.
C14_ScoringFrame ==
    [][IsScoringCall =>
          /\ device' = device
          /\ accounts' = accounts
          /\ arg_ip_data' = arg_ip_data
          /\ arg_matcher' = arg_matcher
          /\ self_weights' = self_weights
          /\ self_weights' = weights]_vars

\* C14 witness: a call on a device without the flag keys and with accounts
\* without a risk_score key has returned.
C14_Witness ==
    /\ result.status = "returned"
    /\ device = [is_vpn |-> "Missing", is_datacenter |-> "Missing"]
    /\ Len(accounts) = 2
    /\ \A i \in 1..Len(accounts) : accounts[i].kind = "missing"

(***************************************************************************)
(* Two calculate_device_risk calls running concurrently on one instance,   *)
(* one statement at a time. Each call has its own frame of locals; the     *)
(* instance attribute self.weights is the only object both can reach.      *)
(***************************************************************************)
MaxConcAccounts == 2

Calls == {1, 2}

ConcDevices == [is_vpn : {"True", "Missing"}, is_datacenter : {"True", "False"}]

ConcAccountValues ==
    { [kind |-> "num", risk_score |-> 6000], [kind |-> "num", risk_score |-> 6001] }

\* A list long enough for the multi-account rule.
FourAccounts ==
    << [kind |-> "num", risk_score |-> 6000], [kind |-> "num", risk_score |-> 6001],
       [kind |-> "num", risk_score |-> 6000], [kind |-> "num", risk_score |-> 6000] >>

\* A list whose only account carries risk_score None.
NoneScored == << [kind |-> "none", risk_score |-> 0] >>

ConcAccountLists ==
    SeqsUpTo(ConcAccountValues, MaxConcAccounts) \cup {FourAccounts, NoneScored}

\* The frame of a call that has just been entered.
NewFrame(dev, accs) ==
    [pc |-> "l25", device |-> dev, accounts |-> accs, score |-> 0, account_count |-> 0,
     suspicious_accounts |-> 0, k |-> 1, risk_level |-> "", out |-> NoResult]

\* The frame that holds the locals (score, account_count, suspicious_accounts,
\* risk_level) of call p: they are local variables, one set per call.
LocalsOf_instance(p) == 1

LocalsOf(p) == p

ConcInit ==
    /\ inv \in [Calls -> {NewFrame(d, a) : d \in ConcDevices, a \in ConcAccountLists}]
    /\ self_weights = weights
    /\ arg_ip_data = "idle" /\ arg_matcher = "idle" /\ rules = <<>> /\ prev = "idle"
    /\ GraphIdle /\ RiskIdle /\ MatcherIdle /\ ApiIdle /\ MaskIdle

ConcFrame == UNCHANGED <<gvars, pvars, rvars, evars, mvars, avars>>

\* line 25: score = 0.0
StepScoreZero(p) ==
    /\ inv[p].pc = "l25"
    /\ inv' = [inv EXCEPT ![LocalsOf(p)].score = 0, ![p].pc = "l28"]
    /\ ConcFrame

\* lines 28-29: if device.get('is_vpn'): score += self.weights['vpn']
StepVpn(p) ==
    /\ inv[p].pc = "l28"
    /\ inv' = [inv EXCEPT
                 ![LocalsOf(p)].score =
                     IF Truthy(DictGet(inv[p].device.is_vpn))
                     THEN @ + self_weights.vpn * TicksPerCent ELSE @,
                 ![p].pc = "l30"]
    /\ ConcFrame

\* lines 30-31: if device.get('is_datacenter'): score += self.weights['datacenter']
StepDatacenter(p) ==
    /\ inv[p].pc = "l30"
    /\ inv' = [inv EXCEPT
                 ![LocalsOf(p)].score =
                     IF Truthy(DictGet(inv[p].device.is_datacenter))
                     THEN @ + self_weights.datacenter * TicksPerCent ELSE @,
                 ![p].pc = "l34"]
    /\ ConcFrame

\* line 34: account_count = len(accounts)
StepCount(p) ==
    /\ inv[p].pc = "l34"
    /\ inv' = [inv EXCEPT ![LocalsOf(p)].account_count = Len(inv[p].accounts),
                          ![p].pc = "l35"]
    /\ ConcFrame

\* lines 35-36: if account_count > 3: score += self.weights['multi_account'] * (account_count / 3)
StepMultiAccount(p) ==
    /\ inv[p].pc = "l35"
    /\ LET n == inv[LocalsOf(p)].account_count
       IN  inv' = [inv EXCEPT
                     ![LocalsOf(p)].score =
                         IF n > 3
                         THEN @ + (self_weights.multi_account * TicksPerCent * n) \div 3
                         ELSE @,
                     ![LocalsOf(p)].suspicious_accounts = 0,
                     ![p].k = 1,
                     ![p].pc = "l39"]
    /\ ConcFrame

\* lines 39-40: one element of the generator under sum(...)
StepSumElement(p) ==
    /\ inv[p].pc = "l39"
    /\ inv[p].k <= Len(inv[p].accounts)
    /\ LET acc == inv[p].accounts[inv[p].k]
       IN  IF AccountScore(acc).kind # "num"
           THEN inv' = [inv EXCEPT ![p].out = RaisedTypeError, ![p].pc = "done"]
           ELSE inv' = [inv EXCEPT
                          ![LocalsOf(p)].suspicious_accounts =
                              IF IsSuspicious(acc) THEN @ + 1 ELSE @,
                          ![p].k = @ + 1]
    /\ ConcFrame

\* lines 39-42: the generator is exhausted; if suspicious_accounts > 0: score += 15.0
StepSuspicious(p) ==
    /\ inv[p].pc = "l39"
    /\ inv[p].k > Len(inv[p].accounts)
    /\ inv' = [inv EXCEPT
                 ![LocalsOf(p)].score =
                     IF inv[LocalsOf(p)].suspicious_accounts > 0
                     THEN @ + 1500 * TicksPerCent ELSE @,
                 ![p].pc = "l45"]
    /\ ConcFrame

\* lines 45-50: risk_level
StepLevel(p) ==
    /\ inv[p].pc = "l45"
    /\ inv' = [inv EXCEPT ![LocalsOf(p)].risk_level = RiskLevel(inv[LocalsOf(p)].score),
                          ![p].pc = "l52"]
    /\ ConcFrame

\* lines 52-61: return {...}
StepReturn(p) ==
    /\ inv[p].pc = "l52"
    /\ LET loc == inv[LocalsOf(p)]
       IN  inv' = [inv EXCEPT
                     ![p].out =
                         [status |-> "returned",
                          risk_score |-> Round2(loc.score),
                          risk_level |-> loc.risk_level,
                          factors |-> [vpn |-> DictGetOrFalse(inv[p].device.is_vpn),
                                       datacenter |-> DictGetOrFalse(inv[p].device.is_datacenter),
                                       account_count |-> loc.account_count,
                                       suspicious_accounts |-> loc.suspicious_accounts]],
                     ![p].pc = "done"]
    /\ ConcFrame

ConcNext ==
    \E p \in Calls :
        \/ StepScoreZero(p)
        \/ StepVpn(p)
        \/ StepDatacenter(p)
        \/ StepCount(p)
        \/ StepMultiAccount(p)
        \/ StepSumElement(p)
        \/ StepSuspicious(p)
        \/ StepLevel(p)
        \/ StepReturn(p)

ConcSpec == ConcInit /\ [][ConcNext]_vars

\* C15: each of two calls interleaved at statement granularity on one shared
\* instance returns what the call returns when run alone, and at no point does
\* a call's account count, suspicious count or score reflect the other call.
C15_NoInterference ==
    \A p \in Calls :
        LET f == inv[p]
            past34 == f.pc \in {"l35", "l39", "l45", "l52"}
            past39 == f.pc \in {"l45", "l52"}
        IN  /\ f.pc = "done" =>
                  f.out = calculate_device_risk(f.device, f.accounts, IpData, Matcher)
            /\ past34 => f.account_count = Len(f.accounts)
            /\ f.pc = "l39" =>
                  f.suspicious_accounts
                     = Cardinality({i \in 1..(f.k - 1) : ScoresAbove60(f.accounts[i])})
            /\ past39 =>
                  /\ f.suspicious_accounts
                        = Cardinality({i \in 1..Len(f.accounts) : ScoresAbove60(f.accounts[i])})
                  /\ f.score = ScoreTicks(f.device, f.accounts)

\* C15 witness: both calls are done, they were given different devices and
\* account lists, one list long enough for the multi-account rule, and their
\* results differ.
C15_Witness ==
    /\ inv[1].pc = "done" /\ inv[2].pc = "done"
    /\ inv[1].device # inv[2].device
    /\ Len(inv[1].accounts) = 4 /\ Len(inv[2].accounts) = 1
    /\ inv[1].out.status = "returned" /\ inv[2].out.status = "returned"
    /\ inv[1].out.risk_score # inv[2].out.risk_score

(***************************************************************************)
(* DeviceMatcher: calculate_similarity and are_related over two device     *)
(* dicts. A similarity is kept in hundredths (the quotient matches / 4 is  *)
(* exact in binary floating point).                                        *)
(***************************************************************************)
\* What a device dict holds under a compared key: a value, None, or no key.
FieldValues == {"a", "b", "None", "Missing"}

MatcherDevices ==
    [os : FieldValues, browser : FieldValues, screen_resolution : FieldValues,
     timezone : FieldValues, language : {"en", "de"}]

NoSim == [status |-> "none"]

\* self.similarity_threshold = 0.85
similarity_threshold == 85

ComparedFields_withLanguage == <<"os", "browser", "screen_resolution", "timezone", "language">>

\* for field in ['os', 'browser', 'screen_resolution', 'timezone']
ComparedFields == <<"os", "browser", "screen_resolution", "timezone">>

FieldMatches_absenceUnequal(d1, d2, field) ==
    /\ d1[field] # "Missing" /\ d2[field] # "Missing"
    /\ d1[field] = d2[field]

FieldMatches_present(d1, d2, field) ==
    /\ d1[field] # "Missing"
    /\ DictGet(d1[field]) = DictGet(d2[field])

\* device1.get(field) == device2.get(field)
FieldMatches(d1, d2, field) == DictGet(d1[field]) = DictGet(d2[field])

\* The loop of calculate_similarity over fields[i..]: <<matches, total>>.
RECURSIVE CountMatches(_, _, _, _)
CountMatches(d1, d2, fields, i) ==
    IF i > Len(fields) THEN <<0, 0>>
    ELSE LET rest == CountMatches(d1, d2, fields, i + 1)
         IN  << rest[1] + (IF FieldMatches(d1, d2, fields[i]) THEN 1 ELSE 0), rest[2] + 1 >>

calculate_similarity(d1, d2) ==
    LET c == CountMatches(d1, d2, ComparedFields, 1)
        matches == c[1]
        total == c[2]
    IN  IF total > 0 THEN (matches * 100) \div total ELSE 0

are_related_threeOfFour(d1, d2) ==
    calculate_similarity(d1, d2) >= similarity_threshold - 10

are_related(d1, d2) ==
    LET similarity == calculate_similarity(d1, d2)
    IN  similarity >= similarity_threshold

\* The outcome of comparing d1 with d2.
CompareResult(d1, d2) ==
    [status |-> "returned",
     similarity |-> calculate_similarity(d1, d2),
     related |-> are_related(d1, d2)]

MatcherInit ==
    /\ device1 \in MatcherDevices
    /\ device2 \in MatcherDevices
    /\ sim = NoSim
    /\ simRev = NoSim
    /\ GraphIdle /\ RiskIdle /\ EngineIdle /\ ConcurrentIdle /\ ApiIdle /\ MaskIdle

\* matcher.calculate_similarity(device1, device2), matcher.are_related(device1, device2)
Compare ==
    /\ sim = NoSim
    /\ sim' = CompareResult(device1, device2)
    /\ UNCHANGED <<gvars, pvars, rvars, evars, cvars, avars, device1, device2, simRev>>

\* The same two calls with the arguments exchanged.
CompareSwapped ==
    /\ simRev = NoSim
    /\ simRev' = CompareResult(device2, device1)
    /\ UNCHANGED <<gvars, pvars, rvars, evars, cvars, avars, device1, device2, sim>>

MatcherNext == Compare \/ CompareSwapped

MatcherSpec == MatcherInit /\ [][MatcherNext]_vars

\* The four compared keys, and what .get reads under one of them.
FourFields == {"os", "browser", "screen_resolution", "timezone"}
Got(d, f) == IF d[f] = "Missing" THEN "None" ELSE d[f]
EqualFields == {f \in FourFields : Got(device1, f) = Got(device2, f)}
MissingInBoth == {f \in FourFields : device1[f] = "Missing" /\ device2[f] = "Missing"}
MissingInOne ==
    {f \in FourFields :
        \/ device1[f] = "Missing" /\ device2[f] \in {"a", "b"}
        \/ device2[f] = "Missing" /\ device1[f] \in {"a", "b"}}

\* C16: the similarity is the number of the four fields os, browser,
\* screen_resolution, timezone that are equal in both devices, divided by 4,
\* so one of 0.0, 0.25, 0.5, 0.75, 1.0; the language field has no influence.
C16_SimilarityValue ==
    sim # NoSim =>
        /\ sim.similarity * 4 = Cardinality(EqualFields) * 100
        /\ sim.similarity \in {0, 25, 50, 75, 100}

\* C16 witness: two devices that differ in language and in exactly one of the
\* four fields were compared, with similarity 0.75.
C16_Witness ==
    /\ sim # NoSim
    /\ device1.language # device2.language
    /\ Cardinality(EqualFields) = 3
    /\ sim.similarity = 75

\* C17 as stated: never raises, and a field counts only when it is present in
\* both devices with equal values (a shared absence is not a match).
C17_AbsenceNotMatch ==
    sim # NoSim =>
        /\ sim.status = "returned"
        /\ sim.similarity * 4
              = 100 * Cardinality({f \in FourFields :
                                      /\ device1[f] # "Missing" /\ device2[f] # "Missing"
                                      /\ device1[f] = device2[f]})

\* C17 amended: never raises; a field missing from one device and holding a
\* value in the other is not a match; a field missing from both devices IS a
\* match (None == None), so two devices with none of the four fields have
\* similarity 1.0.
C17_AbsenceMatches ==
    sim # NoSim =>
        /\ sim.status = "returned"
        /\ sim.similarity * 4 >= 100 * Cardinality(MissingInBoth)
        /\ sim.similarity * 4 <= 100 * (4 - Cardinality(MissingInOne))
        /\ MissingInBoth = FourFields => sim.similarity = 100

\* C17 witness: two devices with none of the four fields were compared.
C17_Witness ==
    /\ sim # NoSim
    /\ MissingInBoth = FourFields
    /\ sim.similarity = 100

\* C18: similarity and the related verdict do not depend on argument order.
C18_Symmetry ==
    (sim # NoSim /\ simRev # NoSim) =>
        /\ sim.similarity = simRev.similarity
        /\ sim.related = simRev.related

\* C18 witness: both orders were computed for two different devices, one with
\* a key the other holds as None.
C18_Witness ==
    /\ sim # NoSim /\ simRev # NoSim
    /\ device1.os = "Missing" /\ device2.os = "None"
    /\ device1.browser = "a" /\ device2.browser = "b"
    /\ sim.similarity = 25

\* C19: related iff similarity >= 0.85, i.e. iff all four fields are equal;
\* three matching fields (0.75) are not related.
C19_RelatedVerdict ==
    sim # NoSim =>
        /\ sim.related <=> sim.similarity >= 85
        /\ sim.related <=> EqualFields = FourFields
        /\ sim.similarity = 75 => ~sim.related

\* C19 witness: a pair with three equal fields was found not related.
C19_Witness ==
    /\ sim # NoSim
    /\ sim.similarity = 75
    /\ ~sim.related
    /\ device1.timezone = "a" /\ device2.timezone = "b"

(***************************************************************************)
(* POST /calculate-risk: the handler of routes/api.py over the devices,    *)
(* accounts and device_account_crossings tables.                           *)
(***************************************************************************)
MaxApiAccounts == 4

ApiDeviceIds == {"d1", "d2"}
ApiAccountIds == 1..MaxApiAccounts

\* What data.get('device_id') can be: no key, the empty string, a stored
\* device's id, an id no device has.
RequestIds == {"Missing", "", "d1", "d2", "d9"}

\* Boolean columns are nullable.
ColumnFlags == {"True", "False", "None"}

\* A devices row with the column defaults risk_score = 0.0, risk_level = 'low'.
NewDeviceRow(vpn, dc) ==
    [is_vpn |-> vpn, is_datacenter |-> dc, risk_score |-> 0, risk_level |-> "low"]

\* db.session.get(Account, id): no row, or a row whose risk_score is a number
\* (in hundredths) or NULL.
NoAccount == [found |-> FALSE, kind |-> "none", risk_score |-> 0]
ApiAccountRows ==
    { NoAccount,
      [found |-> TRUE, kind |-> "num", risk_score |-> 6001],
      [found |-> TRUE, kind |-> "none", risk_score |-> 0] }

\* Crossing tables: the first n accounts are linked to d1, the first m to d2.
CrossingTables ==
    { {<<"d1", a>> : a \in 1..n} \cup {<<"d2", a>> : a \in 1..m} :
        n \in 0..MaxApiAccounts, m \in 0..1 }

NoResponse == [code |-> 0, request |-> "", error |-> "", body |-> NoResult]

\* Device.to_dict, the keys the engine can read: 'is_vpn' is copied,
\* 'is_datacenter' is not among the keys.
Device_to_dict(row) ==
    [is_vpn |-> row.is_vpn, is_datacenter |-> "Missing",
     risk_score |-> row.risk_score, risk_level |-> row.risk_level]

\* Account.to_dict: 'risk_score': float(self.risk_score) if self.risk_score else 0.0
Account_to_dict(row) ==
    [kind |-> "num", risk_score |-> IF row.kind = "num" THEN row.risk_score ELSE 0]

\* The rows of a query result as a list. The order of .all() is the
\* database's; the engine only counts and sums over the list.
RECURSIVE RowList(_)
RowList(S) ==
    IF S = {} THEN <<>>
    ELSE LET x == CHOOSE y \in S : TRUE IN <<x>> \o RowList(S \ {x})

\* DeviceAccountCrossing.query.filter_by(device_id=device_id).all()
CrossingsOf(device_id) == RowList({c \in db_crossings : c[1] = device_id})

\* [a.to_dict() for a in accounts if a]
AccountDicts(cs) ==
    LET accs == [i \in 1..Len(cs) |-> db_accounts[cs[i][2]]]
        found == SelectSeq(accs, LAMBDA a : a.found)
    IN  [i \in 1..Len(found) |-> Account_to_dict(found[i])]

RiskResultFor_usesStored(device_id) ==
    LET row == db_devices[device_id]
    IN  calculate_device_risk(
            [Device_to_dict(row) EXCEPT !.is_vpn = IF row.risk_score > 0 THEN "True" ELSE @],
            AccountDicts(CrossingsOf(device_id)), IpData, Matcher)

\* The RiskResult the handler computes for a stored device.
RiskResultFor(device_id) ==
    calculate_device_risk(Device_to_dict(db_devices[device_id]),
                          AccountDicts(CrossingsOf(device_id)), IpData, Matcher)

WriteBack_all(device_id, risk_result) ==
    [d \in DOMAIN db_devices |->
        [db_devices[d] EXCEPT !.risk_score = risk_result.risk_score,
                              !.risk_level = risk_result.risk_level]]

\* device.risk_score = risk_result['risk_score'];
\* device.risk_level = risk_result['risk_level']; db.session.commit()
WriteBack(device_id, risk_result) ==
    [db_devices EXCEPT ![device_id].risk_score = risk_result.risk_score,
                       ![device_id].risk_level = risk_result.risk_level]

ApiInit ==
    /\ db_devices \in [ApiDeviceIds -> {NewDeviceRow(v, d) : v \in ColumnFlags, d \in ColumnFlags}]
    /\ db_devices["d2"] = NewDeviceRow("True", "False")
    /\ db_accounts \in [ApiAccountIds -> ApiAccountRows]
    /\ db_crossings \in CrossingTables
    /\ api_resp = NoResponse
    /\ GraphIdle /\ RiskIdle /\ EngineIdle /\ ConcurrentIdle /\ MatcherIdle /\ MaskIdle

\* calculate_risk(): one request, from get_json to the response.
calculate_risk(device_id) ==
    /\ IF device_id \in {"Missing", ""}
       THEN /\ api_resp' = [code |-> 400, request |-> device_id,
                            error |-> "device_id required", body |-> NoResult]
            /\ UNCHANGED db_devices
       ELSE IF device_id \notin DOMAIN db_devices
       THEN /\ api_resp' = [code |-> 404, request |-> device_id,
                            error |-> "Device not found", body |-> NoResult]
            /\ UNCHANGED db_devices
       ELSE LET risk_result == RiskResultFor(device_id)
            IN  /\ db_devices' = WriteBack(device_id, risk_result)
                /\ api_resp' = [code |-> 200, request |-> device_id,
                                error |-> "", body |-> risk_result]
    /\ UNCHANGED <<gvars, pvars, rvars, evars, cvars, mvars, db_accounts, db_crossings>>

ApiNext == \E device_id \in RequestIds : calculate_risk(device_id)

ApiSpec == ApiInit /\ [][ApiNext]_vars

\* C20: a /calculate-risk result for a stored device whose is_datacenter flag
\* is true includes the datacenter weight 30.0 in risk_score and reports
\* factors.datacenter = true.
C20_DatacenterCounted ==
    (api_resp.code = 200 /\ db_devices[api_resp.request].is_datacenter = "True") =>
        /\ api_resp.body.factors.datacenter = "True"
        /\ api_resp.body.risk_score >= 3000

(***************************************************************************)
(* fix_data.fix next to /calculate-risk: the two operations that write a   *)
(* device's risk_score and risk_level.                                     *)
(***************************************************************************)
\* Values of random.uniform(10.0, 98.0), in ticks: the ends of the range, the
\* two thresholds, and a float just above 40 and just below 70.
FixScores ==
    { 1000 * TicksPerCent, 4000 * TicksPerCent, 4000 * TicksPerCent + 1,
      7000 * TicksPerCent - 1, 7000 * TicksPerCent, 9800 * TicksPerCent }

\* level = 'high' if score > 70 else 'medium' if score > 40 else 'low'
FixLevel(t) ==
    IF t > 7000 * TicksPerCent THEN "high"
    ELSE IF t > 4000 * TicksPerCent THEN "medium" ELSE "low"

\* The value a Numeric(5, 2) column keeps of a float.
StoreNumeric(t) == Round2(t)

\* fix(): every device gets a random score and the level computed from it.
fix ==
    /\ \E score \in [DOMAIN db_devices -> FixScores] :
          db_devices' =
              [d \in DOMAIN db_devices |->
                  [db_devices[d] EXCEPT !.risk_score = StoreNumeric(score[d]),
                                        !.risk_level = FixLevel(score[d])]]
    /\ UNCHANGED <<gvars, pvars, rvars, evars, cvars, mvars, db_accounts, db_crossings, api_resp>>

\* Every account is stored with a suspicious score.
StoreInit ==
    /\ ApiInit
    /\ \A a \in ApiAccountIds : db_accounts[a] = [found |-> TRUE, kind |-> "num", risk_score |-> 6001]

StoreNext ==
    \/ \E device_id \in RequestIds : calculate_risk(device_id)
    \/ fix

StoreSpec == StoreInit /\ [][StoreNext]_vars

\* The level the thresholds of the scoring rules give a stored score.
LevelOfStored(c) == IF c >= 7000 THEN "high" ELSE IF c >= 4000 THEN "medium" ELSE "low"

\* C21: every stored device has risk_level high iff risk_score >= 70, medium
\* iff 40 <= risk_score < 70, low otherwise, whatever sequence of
\* /calculate-risk write-backs and fix runs wrote it.
C21_StoredAgreement ==
    \A d \in DOMAIN db_devices :
        db_devices[d].risk_level = LevelOfStored(db_devices[d].risk_score)

\* C22: a /calculate-risk request with a missing or empty device_id ends with
\* 400, one naming an unknown device with 404, and neither changes any stored
\* risk_score or risk_level; a request for a stored device writes that
\* device's risk_score and risk_level from the result and no other device's.
C22_RejectionFrame ==
    [][\A id \in RequestIds :
          calculate_risk(id) =>
              /\ id \in {"Missing", ""} =>
                    api_resp'.code = 400 /\ db_devices' = db_devices
              /\ (id \notin {"Missing", ""} /\ id \notin ApiDeviceIds) =>
                    api_resp'.code = 404 /\ db_devices' = db_devices
              /\ id \in ApiDeviceIds =>
                    /\ api_resp'.code = 200
                    /\ \A d \in ApiDeviceIds \ {id} : db_devices'[d] = db_devices[d]
                    /\ db_devices'[id] =
                          [db_devices[id] EXCEPT !.risk_score = api_resp'.body.risk_score,
                                                 !.risk_level = api_resp'.body.risk_level]]_vars

\* C22 witness: d1 was scored and written (VPN, 25.0), then a request for an
\* unknown device was rejected with 404; d2, also on a VPN, still holds the
\* defaults.
C22_Witness ==
    /\ api_resp.code = 404 /\ api_resp.request = "d9"
    /\ db_devices["d1"].risk_score = 2500
    /\ db_devices["d2"].is_vpn = "True"
    /\ db_devices["d2"].risk_score = 0 /\ db_devices["d2"].risk_level = "low"

\* The RiskResult of a device's flags, crossings and accounts alone: the
\* result for the same row holding the column defaults in risk_score and
\* risk_level.
ResultOfInputs(id) ==
    calculate_device_risk(
        Device_to_dict(NewDeviceRow(db_devices[id].is_vpn, db_devices[id].is_datacenter)),
        AccountDicts(CrossingsOf(id)), IpData, Matcher)

\* C23: the result of /calculate-risk for a device does not depend on the
\* stored risk_score or risk_level; a request that follows a request for the
\* same device returns the same RiskResult and leaves the same stored
\* risk_score and risk_level.
C23_Idempotent ==
    [][\A id \in ApiDeviceIds :
          calculate_risk(id) =>
              /\ api_resp'.body = ResultOfInputs(id)
              /\ (api_resp.code = 200 /\ api_resp.request = id) =>
                    /\ api_resp'.body = api_resp.body
                    /\ db_devices'[id].risk_score = api_resp.body.risk_score
                    /\ db_devices'[id].risk_level = api_resp.body.risk_level]_vars

\* C23 witness: fix had stored random values for both devices (d2 still holds
\* 98.0 / high), and a later request for d1, a VPN device with four suspicious
\* accounts, returned and stored 66.67 / medium, a value fix never draws.
C23_Witness ==
    /\ db_devices["d2"].risk_score = 9800 /\ db_devices["d2"].risk_level = "high"
    /\ api_resp.code = 200 /\ api_resp.request = "d1"
    /\ api_resp.body.risk_score = 6667 /\ api_resp.body.factors.account_count = 4
    /\ db_devices["d1"].risk_score = 6667 /\ db_devices["d1"].risk_level = "medium"

(***************************************************************************)
(* mask_pii_for_display (app/utils.py). A string is a sequence of          *)
(* one-character strings.                                                  *)
(***************************************************************************)
MaxValueLen == 6
MaxVisible == 2

Chars == {"a", "b"}

NotMasked == [status |-> "none", text |-> <<>>]

\* '*' * k: empty when k <= 0
Stars(k) == [i \in 1..k |-> "*"]

\* value[:n] for n >= 0
Prefix(value, n) == SubSeq(value, 1, IF n < Len(value) THEN n ELSE Len(value))

\* value[-4:]
LastFour(value) == SubSeq(value, IF Len(value) > 4 THEN Len(value) - 3 ELSE 1, Len(value))

mask_pii_for_display(value, visible_chars) ==
    IF Len(value) = 0 \/ Len(value) <= visible_chars
    THEN Stars(Len(value))
    ELSE Prefix(value, visible_chars)
            \o Stars(Len(value) - visible_chars - 4)
            \o LastFour(value)

MaskInit ==
    /\ pii_value \in SeqsUpTo(Chars, MaxValueLen)
    /\ pii_visible \in 0..MaxVisible
    /\ pii_masked = NotMasked
    /\ GraphIdle /\ RiskIdle /\ EngineIdle /\ ConcurrentIdle /\ MatcherIdle /\ ApiIdle

\* mask_pii_for_display(value, visible_chars)
Mask ==
    /\ pii_masked = NotMasked
    /\ pii_masked' = [status |-> "returned",
                      text |-> mask_pii_for_display(pii_value, pii_visible)]
    /\ UNCHANGED <<gvars, rvars, evars, cvars, mvars, avars, pii_value, pii_visible>>

MaskNext == Mask

MaskSpec == MaskInit /\ [][MaskNext]_vars

\* C24: for every non-empty value and every visible_chars >= 0 the returned
\* string has the length of value and holds at least one '*'.
C24_AlwaysMasked ==
    (pii_masked.status = "returned" /\ Len(pii_value) > 0) =>
        /\ Len(pii_masked.text) = Len(pii_value)
        /\ \E i \in 1..Len(pii_masked.text) : pii_masked.text[i] = "*"

====
